---- MODULE Spec2Model ----
(***************************************************************************)
(* Turn-taking orchestration of the ai-call-agent frontend, and the        *)
(* provider selection of its backend.                                      *)
(*                                                                         *)
(* Part I  - the useVoiceAgent hook (src/unnamed/part_002) driven by the   *)
(*           first App version (src/frontend/src/App.tsx, lines 1-195).    *)
(* Part II - the WebSocket call interface, both versions                   *)
(*           (src/frontend/src/components/CallInterface.tsx).              *)
(* Part III - the second App version (src/frontend/src/App.tsx, 197-520).  *)
(* Part IV - the backend's provider detection (src/unnamed/part_001) and   *)
(*           its provider router.                                          *)
(* Part V  - the energy checks of the three detectors, one frame at a time.*)
(* Part VI - the on-screen console log of the first App version.           *)
(*                                                                         *)
(* One action is one browser task: an event handler together with the      *)
(* promise continuations (microtasks) it triggers.  Time is counted in     *)
(* milliseconds; a silence-check interval fires every CHECK_INTERVAL ms.   *)
(***************************************************************************)
EXTENDS Integers, Sequences, FiniteSets, TLC

VARIABLES
    \* ---- App, first version (useState) ----
    isInitialized,      \* App.tsx:23
    isCallActive,       \* App.tsx:24
    \* ---- useVoiceAgent (useState) ----
    state,              \* part_002:29   'idle' | 'listening' | 'processing' | 'speaking'
    messages,           \* part_002:30
    sessionId,          \* part_002:32   "" until createSession succeeds
    error,              \* part_002:33   "" or the kind of the last error set
    \* ---- useVoiceAgent (useRef) ----
    mediaStreamRef,     \* part_002:36   TRUE iff a MediaStream is held
    recorder,           \* part_002:37   mediaRecorderRef.current: [st, onstop, by, speech]
    audioChunksRef,     \* part_002:38   number of chunks collected
    processingRef,      \* part_002:42
    \* ---- closures and browser objects ----
    cyc,                \* the live startConversation closures, oldest first
    synth,              \* window.speechSynthesis: queue of utterances (indexes into cyc)
    browserStopThrows,  \* MediaRecorder.stop() on an inactive recorder: throws, or does nothing
    initPc,             \* "mount" until the mount effect has run initialize
    endCallFound,            \* history: what End Call interrupted since the last Start Call
    lastTurn,           \* history: how the latest promise chain ended, until a cycle starts
    replied             \* history: a chat reply has been received since the latest End Call

hookVars == <<isInitialized, isCallActive, state, messages, sessionId, error,
              mediaStreamRef, recorder, audioChunksRef, processingRef,
              cyc, synth, browserStopThrows, initPc, endCallFound, lastTurn, replied>>

VARIABLES
    \* ---- CallInterface (useState) ----
    ciVersion,          \* 1: CallInterface.tsx:1-290, 2: CallInterface.tsx:292-658
    callState,          \* CallInterface.tsx:12 / 303   [isConnected, isListening, isSpeaking, status]
    transcripts,        \* CallInterface.tsx:19 / 310   the speakers of the entries
    \* ---- CallInterface (useRef) ----
    streamRef,          \* CallInterface.tsx:23 / 314   "null" | "live" | "stopped"
    websocket,          \* CallInterface.tsx:20 / 311   "null", or the socket's readyState
    ciRecorder,         \* CallInterface.tsx:21 / 312   mediaRecorderRef.current: [st, chunks]
    silenceCounter,     \* CallInterface.tsx:119 / 318
    isRecordingRef,     \* CallInterface.tsx:319
    \* ---- closures and browser objects ----
    closureConnected,   \* callState.isConnected as seen by the handlers startCall installed
    rafPending,         \* requestAnimationFrame callbacks scheduled for checkAudio
    lostRecorders,      \* recorders no longer referenced that still record
    playing,            \* Audio elements playing a backend blob
    sentBlobs,          \* blobs sent to the backend
    calls,              \* startCall invocations so far
    lateStop            \* history: a stop handler has run after endCall or the socket's close

ciVars == <<ciVersion, callState, transcripts, streamRef, websocket, ciRecorder,
            silenceCounter, isRecordingRef, closureConnected, rafPending,
            lostRecorders, playing, sentBlobs, calls, lateStop>>

VARIABLES
    \* ---- App, second version (useState / useRef) ----
    appSessionId,       \* App.tsx:202   "null" until initializeSession has set it
    status,             \* App.tsx:203   'idle' | 'listening' | 'thinking' | 'speaking' | 'error'
    isInCall,           \* App.tsx:204
    appTranscript,      \* App.tsx:205   "", "greeting" or "reply"
    isListening,        \* App.tsx:206
    sessionError,       \* App.tsx:207
    isSpeakingRef,      \* App.tsx:208
    \* ---- closures and browser objects ----
    utterances,         \* window.speechSynthesis: the queued utterances, the head being spoken
    endEvents,          \* end events still to be delivered to cancelled utterances
    timers,             \* pending setTimeout callbacks, in the order they were set
    cancelFiresEnd,     \* speechSynthesis.cancel(): the cancelled utterance gets an end event, or not
    appPc,              \* "mount" until the mount effect has run initializeSession
    callSessions,       \* history: the session id of every Start Call
    \* ---- the voice hook of the second version (hooks/useVoiceAgent) ----
    micOpen,            \* capture is running (startVoiceCall .. stopVoiceCall)
    awaiting            \* a caller utterance has been sent and its reply is due

appVars == <<appSessionId, status, isInCall, appTranscript, isListening, sessionError,
             isSpeakingRef, utterances, endEvents, timers, cancelFiresEnd, appPc,
             callSessions, micOpen, awaiting>>

VARIABLES
    \* ---- backend (clinic_agent.py and the provider router) ----
    env,                \* os.environ as the backend process reads it
    provider,           \* ClinicAgent.provider: "unset" until _determine_provider has run
    invoked             \* the latest call of the router's invoke and what it returned

backendVars == <<env, provider, invoked>>

VARIABLES
    \* ---- one frame of an energy check ----
    frame               \* the latest frame: which check read it, its average, the verdict

vadVars == <<frame>>

VARIABLES
    \* ---- App, first version: the console override ----
    log,                \* App.tsx:25   the messages shown, oldest first
    logged              \* history: the console calls made so far

consoleVars == <<log, logged>>

vars == <<hookVars, ciVars, appVars, backendVars, vadVars, consoleVars>>

----------------------------------------------------------------------------
(* Bounds *)
MaxCycles == 2          \* startConversation closures alive at once
MaxResults == 1         \* results delivered to one recognition.onresult run
MaxCalls == 2           \* startCall invocations of the call interface
MaxPlaying == 2         \* backend blobs playing at once
MaxAppCalls == 2        \* Start Call clicks in the second App version
MaxMessages == 52       \* console calls of one page
MaxPrefixed == 1        \* console.error and console.warn messages in the log at once

(* Program constants *)
SILENCE_DURATION == 1500        \* part_002:45
MIN_SPEECH_DURATION == 500      \* part_002:46
VAD_THRESHOLD_PERCENT == 2      \* part_002:47  (0.02, in hundredths)
CHECK_INTERVAL == 100           \* part_002:398 setInterval(checkSilence, 100)
BYTE_MAX == 255                 \* part_002:372

\* Averages of the analyser's byte frequency data that a check may read.
Averages == {5, 6}

\* part_002:372   average > VAD_THRESHOLD * 255
SoundDetected(average) == average * 100 > VAD_THRESHOLD_PERCENT * BYTE_MAX

----------------------------------------------------------------------------
(* Text helpers: a string is a sequence of one-character strings. *)

IsSpace(ch) == ch = " "

RECURSIVE TrimStart(_)
TrimStart(s) ==
    IF s = <<>> THEN <<>>
    ELSE IF IsSpace(Head(s)) THEN TrimStart(Tail(s)) ELSE s

RECURSIVE TrimEnd(_)
TrimEnd(s) ==
    IF s = <<>> THEN <<>>
    ELSE IF IsSpace(s[Len(s)]) THEN TrimEnd(SubSeq(s, 1, Len(s) - 1)) ELSE s

\* String.prototype.trim
Trim(s) == TrimEnd(TrimStart(s))

\* What one recognition result may carry.
TranscriptParts == { <<>>, <<" ">>, <<"h", "i">> }

RECURSIVE SeqsUpTo(_, _)
SeqsUpTo(S, n) ==
    IF n = 0 THEN { <<>> }
    ELSE LET shorter == SeqsUpTo(S, n - 1)
         IN  shorter \cup { Append(q, x) : q \in shorter, x \in S }

\* part_002:196-201   transcript += transcriptPart + ' ' for every result
RECURSIVE AccumulateTranscript(_)
AccumulateTranscript(results) ==
    IF results = <<>> THEN <<>>
    ELSE Head(results) \o <<" ">> \o AccumulateTranscript(Tail(results))

\* One run of the recognizer: the results it delivered, whether it raised
\* onerror, and whether the SpeechRecognition API exists at all.
RecognitionRuns ==
    [ supported : BOOLEAN, failed : BOOLEAN,
      results : SeqsUpTo(TranscriptParts, MaxResults) ]

----------------------------------------------------------------------------
(* Conversation cycles *)

\* How far the promise chain of part_002:379-393 has come, and how it can end.
ChainLive == {"stopping", "transcribing", "chatting", "speaking", "cancelled"}
ChainOver == {"stopRejected", "stopLost", "transcribeRejected",
              "noSession", "noReply", "done"}

SpeechCap == MIN_SPEECH_DURATION \div CHECK_INTERVAL

Min(a, b) == IF a < b THEN a ELSE b

\* The speech of a cycle whose stopRecording found the recorder already stopped.
NoRecording == -1

\* part_002:351-398   the closure right after setInterval.
\* timer: the interval is set; sinceSound: Date.now() - lastSoundTime at the
\* latest check; chain: "waiting" until the interval fires; speech: the sound
\* frames of the recording the chain stopped and finalized, NoRecording if it
\* stopped none; log: the steps the chain took.
NewCycle == [ timer |-> TRUE, sinceSound |-> 0, speech |-> 0,
              chain |-> "waiting", text |-> <<>>, log |-> <<>> ]

Slots == 1..Len(cyc)

InFlight(c, i) == c[i].timer \/ c[i].chain \in ChainLive

\* A closure with no interval and a finished chain can do nothing more: it is
\* garbage, dropped from cyc; the indexes held elsewhere follow.
Dead(c, i) == ~c[i].timer /\ c[i].chain \in ChainOver

Rank(c, i) == Cardinality({ j \in 1..i : ~Dead(c, j) })

Kept(c) ==
    [ k \in 1..Cardinality({ i \in 1..Len(c) : ~Dead(c, i) }) |->
        c[CHOOSE i \in 1..Len(c) : ~Dead(c, i) /\ Rank(c, i) = k] ]

Follow(c, i) == IF i \in 1..Len(c) /\ ~Dead(c, i) THEN Rank(c, i) ELSE 0

----------------------------------------------------------------------------
(* MediaRecorder and the stopRecording promise *)

NoHandler == [ by |-> "none", slot |-> 0 ]
InertHandler == [ by |-> "inert", slot |-> 0 ]   \* installed, but its promise is already settled
EndCallHandler == [ by |-> "end", slot |-> 0 ]
CycleHandler(i) == [ by |-> "cycle", slot |-> i ]

\* part_002:116-125   the recorder cycle i creates and starts; speech counts
\* the checks of cycle i that found sound while it records (0 once stopped).
NewRecorder(i) == [ st |-> "recording", onstop |-> NoHandler, by |-> i, speech |-> 0 ]

\* part_002:140-159   what becomes of the promise stopRecording returns:
\* "pending" (a stop event will settle it), "rejected", or "never" settled.
stopRecordingFate ==
    IF recorder.st = "null" THEN "rejected"                 \* 144-147
    ELSE IF recorder.st = "recording" THEN "pending"        \* 157
    ELSE IF browserStopThrows THEN "rejected"               \* stop() throws InvalidStateError
    ELSE IF recorder.st = "stopping" THEN "pending"         \* an earlier stop's event is still queued
    ELSE "never"

\* part_002:149-157   mediaRecorderRef.current after stopRecording called by owner
stopRecordingRecorder(owner) ==
    IF recorder.st = "null" THEN recorder
    ELSE IF recorder.st = "recording"
         THEN [ recorder EXCEPT !.st = "stopping", !.onstop = owner, !.speech = 0 ]
    ELSE IF browserStopThrows THEN [ recorder EXCEPT !.onstop = InertHandler ]
    ELSE [ recorder EXCEPT !.onstop = owner ]

\* part_002:149   assigning onstop replaces the handler of a promise that was
\* waiting for the stop event: the chain of that cycle never resumes.
Displace(c, owner) ==
    IF /\ recorder.st # "null"
       /\ recorder.onstop.by = "cycle"
       /\ recorder.onstop # owner
       /\ c[recorder.onstop.slot].chain = "stopping"
    THEN [ c EXCEPT ![recorder.onstop.slot].chain = "stopLost" ]
    ELSE c

\* The interval left running after its check has fired.
clearIntervalOmitted(c, i) == c

\* part_002:394
clearInterval(c, i) == [ c EXCEPT ![i].timer = FALSE ]

\* part_002:376   Date.now() - lastSoundTime > SILENCE_DURATION
SilenceElapsed(elapsed) == elapsed > SILENCE_DURATION

\* The closures, the recorder and the utterance queue after a handler has run.
Commit(c, rec, syn) ==
    /\ cyc' = Kept(c)
    /\ recorder' =
         [ rec EXCEPT !.by = Follow(c, @),
                      !.onstop = IF @.by # "cycle" THEN @
                                 ELSE IF Follow(c, @.slot) = 0 THEN InertHandler
                                 ELSE CycleHandler(Follow(c, @.slot)) ]
    /\ synth' = [ k \in 1..Len(syn) |-> Follow(c, syn[k]) ]

----------------------------------------------------------------------------
(* Hook operations *)

\* part_002:106-135 and 345-403   a cycle starts: c, syn are the closures and the
\* utterance queue so far, st the state on entry.
startConversation(c, syn, st) ==
    LET started == /\ Commit(Append(c, NewCycle), NewRecorder(Len(c) + 1), syn)
                   /\ audioChunksRef' = 0                   \* 114
                   /\ state' = "listening"                  \* 128
                   /\ processingRef' = TRUE                 \* 351
                   /\ lastTurn' = "none"
    IN  IF mediaStreamRef
        THEN started /\ UNCHANGED <<mediaStreamRef, error>>
        ELSE \E granted \in BOOLEAN :                       \* 110-112
               IF granted
               THEN started /\ mediaStreamRef' = TRUE /\ UNCHANGED error
               ELSE /\ Commit(c, recorder, syn)             \* 399-402
                    /\ error' = "mic"
                    /\ state' = st
                    /\ processingRef' = FALSE
                    /\ UNCHANGED <<audioChunksRef, mediaStreamRef, lastTurn>>

\* part_002:64-68   what GET /session/new comes back with: a body with a
\* session_id, a body without one (data.session_id is undefined, as in an
\* error body), or a failed fetch / unparsable body.
SessionResponses == {"id", "noId", "failed"}

\* part_002:408-426 with createSession (61-77) and initMicrophone (82-101),
\* run by the mount effect App.tsx:28-39.
initialize ==
    /\ initPc = "mount"
    /\ initPc' = "mounted"
    /\ \E session \in SessionResponses, micGranted \in BOOLEAN :
         IF session = "failed"                                       \* 72-76
         THEN /\ error' = "session"
              /\ UNCHANGED <<sessionId, mediaStreamRef, state, isInitialized>>
         ELSE /\ sessionId' = IF session = "id" THEN "session-1" ELSE ""   \* 68
              /\ IF ~micGranted
                 THEN /\ error' = "mic"
                      /\ UNCHANGED <<mediaStreamRef, state, isInitialized>>
                 ELSE /\ mediaStreamRef' = TRUE
                      /\ state' = "idle"
                      /\ isInitialized' = TRUE
                      /\ UNCHANGED error
    /\ UNCHANGED <<isCallActive, messages, recorder, audioChunksRef, processingRef,
                   cyc, synth, browserStopThrows, endCallFound, lastTurn, replied>>
    /\ UNCHANGED <<ciVars, appVars, backendVars, vadVars, consoleVars>>

\* App.tsx:72-80   the button is shown while !isCallActive and enabled once initialized
handleStartCall ==
    /\ isInitialized
    /\ ~isCallActive
    /\ Len(cyc) < MaxCycles
    /\ isCallActive' = TRUE
    /\ startConversation(cyc, synth, state)
    /\ endCallFound' = "none"
    /\ UNCHANGED <<isInitialized, messages, sessionId, browserStopThrows, initPc, replied>>
    /\ UNCHANGED <<ciVars, appVars, backendVars, vadVars, consoleVars>>

\* part_002:368-396   one run of the interval callback of cycle i
checkSilence(i) ==
    /\ cyc[i].timer
    /\ \E average \in Averages :
         IF SoundDetected(average)
         THEN /\ cyc' = [ cyc EXCEPT ![i].sinceSound = 0 ]           \* 374
              /\ recorder' =
                   IF recorder.st = "recording" /\ recorder.by = i
                   THEN [ recorder EXCEPT !.speech = Min(@ + 1, SpeechCap) ]
                   ELSE recorder
              /\ UNCHANGED synth
         ELSE LET elapsed == Min(cyc[i].sinceSound + CHECK_INTERVAL,
                                 SILENCE_DURATION + CHECK_INTERVAL)
              IN  IF SilenceElapsed(elapsed)
                  THEN LET fate == stopRecordingFate               \* 379
                           c1 == [ cyc EXCEPT ![i] =
                                     [ @ EXCEPT
                                         !.sinceSound = elapsed,
                                         !.speech = IF recorder.st = "recording"
                                                    THEN recorder.speech
                                                    ELSE NoRecording,
                                         !.log = Append(@, "stop"),
                                         !.chain =
                                            IF fate = "pending" THEN "stopping"
                                            ELSE IF fate = "rejected" THEN "stopRejected"
                                            ELSE "stopLost" ] ]
                       IN  Commit(clearInterval(Displace(c1, CycleHandler(i)), i),
                                  stopRecordingRecorder(CycleHandler(i)), synth)
                  ELSE /\ cyc' = [ cyc EXCEPT ![i].sinceSound = elapsed ]
                       /\ UNCHANGED <<recorder, synth>>
    /\ UNCHANGED <<isInitialized, isCallActive, state, messages, sessionId, error,
                   mediaStreamRef, audioChunksRef, processingRef,
                   browserStopThrows, initPc, replied, endCallFound, lastTurn>>
    /\ UNCHANGED <<ciVars, appVars, backendVars, vadVars, consoleVars>>

\* The recorder's queued dataavailable and stop events (part_002:120-122, 149-155):
\* the stop handler is whichever stopRecording call assigned onstop last.
recorderStopped ==
    /\ recorder.st = "stopping"
    /\ recorder' = [ recorder EXCEPT !.st = "inactive" ]
    /\ audioChunksRef' = audioChunksRef + 1
    /\ IF recorder.onstop.by = "cycle"
       THEN /\ cyc' = [ cyc EXCEPT                          \* 379-381
                          ![recorder.onstop.slot].chain = "transcribing",
                          ![recorder.onstop.slot].log = Append(@, "transcribe") ]
            /\ UNCHANGED isCallActive
       ELSE IF recorder.onstop.by = "end"
       THEN /\ isCallActive' = FALSE                        \* App.tsx:85-86
            /\ UNCHANGED cyc
       ELSE UNCHANGED <<cyc, isCallActive>>
    /\ UNCHANGED <<isInitialized, state, messages, sessionId, error, mediaStreamRef,
                   processingRef, synth, browserStopThrows, initPc, replied, endCallFound, lastTurn>>
    /\ UNCHANGED <<ciVars, appVars, backendVars, vadVars, consoleVars>>

\* The recognizer's text resolved without the test for an empty transcript.
transcribeAudioUnchecked(run) ==
    IF ~run.supported \/ run.failed THEN [ ok |-> FALSE, text |-> <<>> ]
    ELSE [ ok |-> TRUE, text |-> Trim(AccumulateTranscript(run.results)) ]

\* part_002:164-258   the promise's outcome for one recognizer run
transcribeAudio(run) ==
    LET transcript == AccumulateTranscript(run.results)
    IN  IF ~run.supported THEN [ ok |-> FALSE, text |-> <<>> ]      \* 177-182
        ELSE IF run.failed THEN [ ok |-> FALSE, text |-> <<>> ]     \* 207-210
        ELSE IF Trim(transcript) # <<>>                              \* 214
             THEN [ ok |-> TRUE, text |-> Trim(transcript) ]         \* 217
             ELSE [ ok |-> FALSE, text |-> <<>> ]                    \* 219-221

\* sendMessage going on to its request without looking at the session id.
hasSessionUntested == TRUE

\* part_002:264   if (!sessionId) return null
hasSession == sessionId # ""

\* What the promise of transcribeAudio can settle to, over the recognizer runs.
TranscribeOutcomes == { transcribeAudio(run) : run \in RecognitionRuns }

\* part_002:381-383 with sendMessage up to its fetch (263-285)
transcribed(i) ==
    /\ cyc[i].chain = "transcribing"
    /\ \E result \in TranscribeOutcomes :
             IF ~result.ok
             THEN /\ Commit([ cyc EXCEPT ![i].chain = "transcribeRejected" ],
                            recorder, synth)
                  /\ lastTurn' = "transcribeRejected"
                  /\ UNCHANGED state
             ELSE IF ~hasSession                                     \* 265-268
             THEN /\ Commit([ cyc EXCEPT ![i].chain = "noSession" ], recorder, synth)
                  /\ lastTurn' = "noSession"
                  /\ UNCHANGED state
             ELSE /\ cyc' = [ cyc EXCEPT ![i].chain = "chatting",
                                         ![i].text = result.text,
                                         ![i].log = Append(@, "chat") ]
                  /\ state' = "processing"                           \* 271
                  /\ UNCHANGED <<recorder, synth, lastTurn>>
    /\ UNCHANGED <<isInitialized, isCallActive, messages, sessionId, error,
                   mediaStreamRef, audioChunksRef, processingRef,
                   browserStopThrows, initPc, replied, endCallFound>>
    /\ UNCHANGED <<ciVars, appVars, backendVars, vadVars, consoleVars>>

\* How the chat request ends: a reply, a body without a usable reply, or a
\* failed fetch / unparsable body (part_002:276-299).
ChatOutcomes == {"reply", "noReply", "failed"}

\* The request body built without the session id.
ChatRequestWithoutSession(i) == [ session_id |-> "", message |-> cyc[i].text ]

\* part_002:276-283   the body of the POST to /api/chat for the chain of cycle i
ChatRequest(i) == [ session_id |-> sessionId, message |-> cyc[i].text ]

\* The utterances a request body carries, oldest first.
RequestTurns(request) == << request.message >>

\* part_002:287-299 and 383-386 with speakText up to speak() (307-333).
\* speaks: the utterance is made and queued; otherwise speakText throws before
\* that, its catch (334-338) returns false and the chain goes on at 389-391.
chatResponded(i) ==
    /\ cyc[i].chain = "chatting"
    /\ \E outcome \in ChatOutcomes, speaks \in BOOLEAN :
         /\ replied' = (replied \/ outcome = "reply")
         /\ IF outcome = "reply"                                     \* 384
            THEN IF speaks
                 THEN /\ state' = "speaking"                         \* 309
                      /\ synth' = Append(synth, i)                   \* 333
                      /\ cyc' = [ cyc EXCEPT ![i].chain = "speaking",
                                             ![i].log = Append(@, "speak") ]
                      /\ UNCHANGED <<recorder, lastTurn, error, mediaStreamRef,
                                     audioChunksRef, processingRef>>
                 ELSE startConversation([ cyc EXCEPT ![i].chain = "done",
                                                     ![i].log = Append(@, "speak") ],
                                        synth, "idle")
            ELSE /\ error' = IF outcome = "failed" THEN "chat" ELSE error   \* 297
                 /\ Commit([ cyc EXCEPT ![i].chain = "noReply" ], recorder, synth)
                 /\ lastTurn' = "noReply"
                 /\ UNCHANGED <<state, mediaStreamRef, audioChunksRef, processingRef>>
    /\ UNCHANGED <<isInitialized, isCallActive, messages, sessionId,
                   browserStopThrows, initPc, endCallFound>>
    /\ UNCHANGED <<ciVars, appVars, backendVars, vadVars, consoleVars>>

\* The utterance queue without the utterance of cycle i.
Unqueue(syn, i) == SelectSeq(syn, LAMBDA k : k # i)

\* The utterance's end or error leaving the chain unresolved: nothing follows.
speechFinishedHalts(i) ==
    /\ \/ cyc[i].chain = "speaking" /\ synth # <<>> /\ Head(synth) = i
       \/ cyc[i].chain = "cancelled"
    /\ Commit([ cyc EXCEPT ![i].chain = "done" ], recorder, Unqueue(synth, i))
    /\ state' = "idle"
    /\ UNCHANGED <<isInitialized, isCallActive, messages, sessionId, error,
                   mediaStreamRef, audioChunksRef, processingRef,
                   browserStopThrows, initPc, replied, endCallFound, lastTurn>>
    /\ UNCHANGED <<ciVars, appVars, backendVars, vadVars, consoleVars>>

\* utterance.onend / utterance.onerror (part_002:320-331), then 386-389:
\* the cycle ends and the next one starts.
speechFinished(i) ==
    /\ \/ cyc[i].chain = "speaking" /\ synth # <<>> /\ Head(synth) = i
       \/ cyc[i].chain = "cancelled"
    /\ startConversation([ cyc EXCEPT ![i].chain = "done" ], Unqueue(synth, i), "idle")
    /\ UNCHANGED <<isInitialized, isCallActive, messages, sessionId,
                   browserStopThrows, initPc, replied, endCallFound>>
    /\ UNCHANGED <<ciVars, appVars, backendVars, vadVars, consoleVars>>

\* window.speechSynthesis.cancel(): every queued utterance is removed and
\* gets its terminating event.
speechCancel(c) ==
    [ i \in 1..Len(c) |->
        IF c[i].chain = "speaking" THEN [ c[i] EXCEPT !.chain = "cancelled" ] ELSE c[i] ]

MidTurn(c) ==
    \E i \in 1..Len(c) : c[i].chain \in {"transcribing", "chatting", "speaking"}

\* App.tsx:82-90
handleEndCall ==
    /\ isCallActive
    /\ Commit(Displace(speechCancel(cyc), EndCallHandler),           \* 84-85
              stopRecordingRecorder(EndCallHandler), <<>>)
    /\ endCallFound' = IF MidTurn(cyc) \/ endCallFound = "midTurn" THEN "midTurn" ELSE "other"
    /\ UNCHANGED <<isInitialized, isCallActive, state, messages, sessionId, error,
                   mediaStreamRef, audioChunksRef, processingRef,
                   browserStopThrows, initPc, lastTurn>>
    /\ replied' = FALSE
    /\ UNCHANGED <<ciVars, appVars, backendVars, vadVars, consoleVars>>

----------------------------------------------------------------------------
HookInit ==
    /\ isInitialized = FALSE
    /\ isCallActive = FALSE
    /\ state = "idle"
    /\ messages = <<>>
    /\ sessionId = ""
    /\ error = ""
    /\ mediaStreamRef = FALSE
    /\ recorder = [ st |-> "null", onstop |-> NoHandler, by |-> 0, speech |-> 0 ]
    /\ audioChunksRef = 0
    /\ processingRef = FALSE
    /\ cyc = <<>>
    /\ synth = <<>>
    /\ browserStopThrows \in BOOLEAN
    /\ initPc = "mount"
    /\ endCallFound = "none"
    /\ lastTurn = "none"
    /\ replied = FALSE

HookNext ==
    \/ initialize
    \/ handleStartCall
    \/ handleEndCall
    \/ recorderStopped
    \/ \E i \in Slots : checkSilence(i)
    \/ \E i \in Slots : transcribed(i)
    \/ \E i \in Slots : chatResponded(i)
    \/ \E i \in Slots : speechFinished(i)

----------------------------------------------------------------------------
(* The WebSocket call interface *)

SILENCE_THRESHOLD_V1 == 30      \* CallInterface.tsx:121
SILENCE_FRAMES_V1 == 15         \* CallInterface.tsx:122
SILENCE_THRESHOLD_V2 == 25      \* CallInterface.tsx:439
SILENCE_FRAMES_V2 == 15         \* CallInterface.tsx:440

\* Averages of the analyser's byte frequency data that checkAudio may read.
CILevels == { 0, SILENCE_THRESHOLD_V2, SILENCE_THRESHOLD_V2 + 1,
              SILENCE_THRESHOLD_V1, SILENCE_THRESHOLD_V1 + 1 }

NewCIRecorder == [ st |-> "inactive", chunks |-> 0 ]

\* CallInterface.tsx:128   first version: a frame that is not below the threshold
isLoud(average) == ~(average < SILENCE_THRESHOLD_V1)

\* CallInterface.tsx:451   second version
isSpeechDetected(average) == average > SILENCE_THRESHOLD_V2

\* CallInterface.tsx:124-145   checkAudio, first version: the locals after one
\* run.  mediaRecorder.recording is not a property of MediaRecorder: it reads
\* undefined, so start() is called on every loud frame (and throws on a
\* recorder that records, ending the callback) and stop() is never called.
checkAudioV1(level, sc, rec) ==
    LET loud == isLoud(level)                                        \* 128
        thrown == loud /\ rec.st = "recording"
    IN  [ sc  |-> IF loud THEN 0 ELSE sc + 1,
          rec |-> IF loud /\ ~thrown THEN [ rec EXCEPT !.st = "recording" ] ELSE rec,
          isRec |-> FALSE,
          raf |-> ~thrown /\ closureConnected ]                      \* 142-144

\* CallInterface.tsx:443-479   checkAudio, second version
checkAudioV2(level, sc, rec, isRec) ==
    IF ~closureConnected                                             \* 444-447
    THEN [ sc |-> sc, rec |-> rec, isRec |-> isRec, raf |-> FALSE ]
    ELSE LET speech == isSpeechDetected(level)                       \* 451
             starts == speech /\ ~isRec                              \* 456
             rec1 == IF starts THEN [ st |-> "recording", chunks |-> 0 ] ELSE rec
             isRec1 == isRec \/ starts
             sc1 == IF speech THEN 0                                 \* 454
                    ELSE IF isRec THEN sc + 1 ELSE sc                \* 464-465
             stops == sc1 >= SILENCE_FRAMES_V2 /\ isRec1             \* 471
         IN  [ sc |-> IF stops THEN 0 ELSE sc1,
               rec |-> IF stops THEN [ rec1 EXCEPT !.st = "stopping" ] ELSE rec1,
               isRec |-> IF stops THEN FALSE ELSE isRec1,
               raf |-> TRUE ]                                        \* 478

checkAudio(level, sc, rec, isRec) ==
    IF ciVersion = 1 THEN checkAudioV1(level, sc, rec)
    ELSE checkAudioV2(level, sc, rec, isRec)

\* CallInterface.tsx:100-164 / 408-512   startListening: cs is callState as the
\* caller leaves it, frames the callbacks scheduled so far, level what the
\* first checkAudio reads.
startListening(cs, frames, level) ==
    IF streamRef = "null" \/ websocket = "null"                      \* 101 / 409
    THEN /\ callState' = cs
         /\ rafPending' = frames
         /\ UNCHANGED <<ciRecorder, silenceCounter, isRecordingRef, lostRecorders>>
    ELSE LET after == checkAudio(level, 0, NewCIRecorder, FALSE)     \* 163 / 511
         IN  /\ callState' =
                  IF ciVersion = 1 THEN [ cs EXCEPT !.isListening = TRUE ]
                  ELSE [ cs EXCEPT !.isListening = TRUE, !.status = "Listening..." ]
             /\ ciRecorder' = after.rec                              \* 116 / 432
             /\ lostRecorders' =
                  IF ciRecorder.st = "recording" THEN lostRecorders + 1 ELSE lostRecorders
             /\ silenceCounter' = after.sc
             /\ isRecordingRef' = after.isRec
             /\ rafPending' = IF after.raf THEN frames + 1 ELSE frames

\* CallInterface.tsx:514-523   stopListening: the recorder and the frames after it
stopListeningRecorder ==
    IF ciRecorder.st # "null" /\ isRecordingRef                      \* 519
    THEN [ ciRecorder EXCEPT !.st = IF @ = "recording" THEN "stopping" ELSE @ ]
    ELSE ciRecorder

stopListeningFrames == IF rafPending > 0 THEN rafPending - 1 ELSE 0  \* 516-518

\* startCall with the socket opened before the microphone is asked for.
startCallConnectsFirst ==
    /\ ~callState.isConnected
    /\ websocket \in {"null", "closed"}
    /\ calls < MaxCalls
    /\ calls' = calls + 1
    /\ websocket' = "connecting"
    /\ closureConnected' = callState.isConnected
    /\ \E granted \in BOOLEAN :
         IF granted
         THEN /\ callState' = [ callState EXCEPT !.status = "Connecting to clinic..." ]
              /\ streamRef' = "live"
         ELSE /\ callState' =
                   [ callState EXCEPT !.status = "Error: Microphone access denied" ]
              /\ UNCHANGED streamRef
    /\ UNCHANGED <<ciVersion, transcripts, ciRecorder, silenceCounter, isRecordingRef,
                   rafPending, lostRecorders, playing, sentBlobs, lateStop>>
    /\ UNCHANGED <<hookVars, appVars, backendVars, vadVars, consoleVars>>

\* CallInterface.tsx:31-98 / 326-406   the button is shown while !isConnected
startCall ==
    /\ ~callState.isConnected
    /\ websocket \in {"null", "closed"}
    /\ calls < MaxCalls
    /\ calls' = calls + 1
    /\ \E granted \in BOOLEAN :
         IF granted
         THEN /\ callState' = [ callState EXCEPT !.status = "Connecting to clinic..." ]
              /\ streamRef' = "live"                                 \* 40 / 342
              /\ websocket' = "connecting"                           \* 50 / 354
              /\ closureConnected' = callState.isConnected
         ELSE /\ callState' =                                        \* 91-97 / 399-405
                   [ callState EXCEPT !.status = "Error: Microphone access denied" ]
              /\ UNCHANGED <<streamRef, websocket, closureConnected>>
    /\ UNCHANGED <<ciVersion, transcripts, ciRecorder, silenceCounter, isRecordingRef,
                   rafPending, lostRecorders, playing, sentBlobs, lateStop>>
    /\ UNCHANGED <<hookVars, appVars, backendVars, vadVars, consoleVars>>

\* CallInterface.tsx:52-59 / 356-363   ws.onopen
wsOpen ==
    /\ websocket = "connecting"
    /\ websocket' = "open"
    /\ IF ciVersion = 1
       THEN \E level \in CILevels :
              startListening([ callState EXCEPT
                                 !.isConnected = TRUE,
                                 !.status = "Listening to clinic agent..." ],
                             rafPending, level)
       ELSE /\ callState' = [ callState EXCEPT
                                !.isConnected = TRUE,
                                !.status = "Connected. Listening to clinic agent greeting..." ]
            /\ UNCHANGED <<ciRecorder, silenceCounter, isRecordingRef,
                           rafPending, lostRecorders>>
    /\ UNCHANGED <<ciVersion, transcripts, streamRef, closureConnected,
                   playing, sentBlobs, calls, lateStop>>
    /\ UNCHANGED <<hookVars, appVars, backendVars, vadVars, consoleVars>>

\* CallInterface.tsx:61-71 / 365-377   ws.onmessage with a Blob, and playAudio
\* up to play() (175-177 / 525-552); a browser may refuse to play.
wsMessage ==
    /\ websocket = "open"
    /\ playing < MaxPlaying
    /\ \E plays \in BOOLEAN : playing' = IF plays THEN playing + 1 ELSE playing
    /\ callState' =
         IF ciVersion = 1
         THEN [ callState EXCEPT !.isSpeaking = TRUE,
                                 !.status = "Clinic agent speaking..." ]
         ELSE [ callState EXCEPT !.isSpeaking = TRUE, !.isListening = FALSE,
                                 !.status = "Clinic agent speaking..." ]
    /\ UNCHANGED <<ciVersion, transcripts, streamRef, websocket, ciRecorder,
                   silenceCounter, isRecordingRef, closureConnected, rafPending,
                   lostRecorders, sentBlobs, calls, lateStop>>
    /\ UNCHANGED <<hookVars, appVars, backendVars, vadVars, consoleVars>>

\* CallInterface.tsx:73-79 / 379-385   ws.onerror
wsError ==
    /\ websocket \in {"connecting", "open"}
    /\ callState.status # "Connection error. Please try again."
    /\ callState' = [ callState EXCEPT !.status = "Connection error. Please try again." ]
    /\ UNCHANGED <<ciVersion, transcripts, streamRef, websocket, ciRecorder,
                   silenceCounter, isRecordingRef, closureConnected, rafPending,
                   lostRecorders, playing, sentBlobs, calls, lateStop>>
    /\ UNCHANGED <<hookVars, appVars, backendVars, vadVars, consoleVars>>

\* CallInterface.tsx:81-88 / 387-396   ws.onclose
wsClose ==
    /\ websocket \in {"connecting", "open", "closing"}
    /\ websocket' = "closed"
    /\ callState' = [ callState EXCEPT !.isConnected = FALSE, !.isListening = FALSE,
                                       !.status = "Call ended" ]
    /\ IF ciVersion = 1
       THEN UNCHANGED <<ciRecorder, isRecordingRef, rafPending>>
       ELSE /\ ciRecorder' = stopListeningRecorder                   \* 395
            /\ isRecordingRef' = FALSE
            /\ rafPending' = stopListeningFrames
    /\ UNCHANGED <<ciVersion, transcripts, streamRef, silenceCounter,
                   closureConnected, lostRecorders, playing, sentBlobs, calls, lateStop>>
    /\ UNCHANGED <<hookVars, appVars, backendVars, vadVars, consoleVars>>

\* audio.onended (CallInterface.tsx:179-189 / 533-544)
audioEnded(level) ==
    /\ playing > 0
    /\ playing' = playing - 1
    /\ IF closureConnected                                           \* 181 / 536
       THEN startListening([ callState EXCEPT !.isSpeaking = FALSE,
                                              !.status = "Listening..." ],
                           rafPending, level)
       ELSE UNCHANGED <<callState, ciRecorder, silenceCounter, isRecordingRef,
                        rafPending, lostRecorders>>
    /\ UNCHANGED <<ciVersion, transcripts, streamRef, websocket, closureConnected,
                   sentBlobs, calls, lateStop>>
    /\ UNCHANGED <<hookVars, appVars, backendVars, vadVars, consoleVars>>

\* One scheduled run of checkAudio (CallInterface.tsx:143 / 478)
animationFrame(level) ==
    /\ rafPending > 0
    /\ LET after == checkAudio(level, silenceCounter, ciRecorder, isRecordingRef)
       IN  /\ silenceCounter' = after.sc
           /\ ciRecorder' = after.rec
           /\ isRecordingRef' = after.isRec
           /\ rafPending' = IF after.raf THEN rafPending ELSE rafPending - 1
    /\ UNCHANGED <<ciVersion, callState, transcripts, streamRef, websocket,
                   closureConnected, lostRecorders, playing, sentBlobs, calls, lateStop>>
    /\ UNCHANGED <<hookVars, appVars, backendVars, vadVars, consoleVars>>

\* The callbacks of the page's media objects: an Audio element has played to
\* its end, or a scheduled animation frame runs checkAudio.  No frame is ever
\* scheduled (NoFrameScheduled below): the handlers read the callState of the
\* render in which startCall ran, where isConnected is false.
mediaCallback ==
    \E kind \in {"ended", "frame"}, level \in CILevels :
        IF kind = "ended" THEN audioEnded(level) ELSE animationFrame(level)

\* The stop handler sending whatever the socket's readyState is.
onstopSendsAnyState(chunks) == ciVersion = 1 \/ chunks > 0

\* CallInterface.tsx:156 / 489-494   the stop handler sends the blob
onstopSends(chunks) ==
    /\ websocket = "open"                                           \* 156 / 494
    /\ (ciVersion = 1 \/ chunks > 0)                                \* 489

\* mediaRecorder.ondataavailable and onstop (CallInterface.tsx:147-161 / 481-508)
ciRecorderStopped ==
    /\ ciRecorder.st = "stopping"
    /\ \E size \in {0, 1} :
         LET chunks == IF ciVersion = 1 \/ size > 0                  \* 148 / 482-485
                       THEN ciRecorder.chunks + 1 ELSE ciRecorder.chunks
             sends == onstopSends(chunks)
         IN  /\ ciRecorder' = [ st |-> "inactive", chunks |-> 0 ]    \* 153 / 506
             /\ lateStop' = (lateStop \/ websocket \in {"closing", "closed"})
             /\ sentBlobs' = IF sends THEN sentBlobs + 1 ELSE sentBlobs
             /\ transcripts' = IF sends THEN Append(transcripts, "You")
                               ELSE transcripts
    /\ UNCHANGED <<ciVersion, callState, streamRef, websocket, silenceCounter,
                   isRecordingRef, closureConnected, rafPending, lostRecorders,
                   playing, calls>>
    /\ UNCHANGED <<hookVars, appVars, backendVars, vadVars, consoleVars>>

\* CallInterface.tsx:192-209 / 555-574   endCall; the button is shown while isConnected.
\* The final mediaRecorderRef.current.stop() throws on an inactive recorder in
\* a browser that does so, and the setCallState after it is then not reached.
endCall ==
    /\ callState.isConnected
    /\ LET rec == IF ciVersion = 1 THEN ciRecorder ELSE stopListeningRecorder  \* 557
           thrown == rec.st \in {"inactive", "stopping"} /\ browserStopThrows  \* 199-201 / 564-566
       IN  /\ ciRecorder' = [ rec EXCEPT !.st = IF @ = "recording" THEN "stopping" ELSE @ ]
           /\ callState' =
                IF thrown THEN callState
                ELSE [ callState EXCEPT !.isConnected = FALSE, !.isListening = FALSE,
                                        !.isSpeaking = FALSE, !.status = "Call ended" ]
    /\ isRecordingRef' = FALSE
    /\ rafPending' = IF ciVersion = 1 THEN rafPending ELSE stopListeningFrames
    /\ websocket' = IF websocket \in {"connecting", "open"} THEN "closing" ELSE websocket
    /\ streamRef' = IF streamRef = "null" THEN "null" ELSE "stopped"   \* 196-198 / 561-563
    /\ UNCHANGED <<ciVersion, transcripts, silenceCounter, closureConnected,
                   lostRecorders, playing, sentBlobs, calls, lateStop>>
    /\ UNCHANGED <<hookVars, appVars, backendVars, vadVars, consoleVars>>

CIInit ==
    /\ ciVersion \in {1, 2}
    /\ callState = [ isConnected |-> FALSE, isListening |-> FALSE,
                     isSpeaking |-> FALSE, status |-> "Ready to call" ]
    /\ transcripts = <<>>
    /\ streamRef = "null"
    /\ websocket = "null"
    /\ ciRecorder = [ st |-> "null", chunks |-> 0 ]
    /\ silenceCounter = 0
    /\ isRecordingRef = FALSE
    /\ closureConnected = FALSE
    /\ rafPending = 0
    /\ lostRecorders = 0
    /\ playing = 0
    /\ sentBlobs = 0
    /\ calls = 0
    /\ lateStop = FALSE

CINext ==
    \/ startCall
    \/ wsOpen
    \/ wsMessage
    \/ wsError
    \/ wsClose
    \/ mediaCallback
    \/ ciRecorderStopped
    \/ endCall

----------------------------------------------------------------------------
(* The second App version *)

GREETING_DELAY == 500           \* App.tsx:352
LISTEN_DELAY == 1000            \* App.tsx:318
TIME_STEP == GREETING_DELAY     \* the step in which the model counts timer delays

NewTimer(kind, delay) == [ kind |-> kind, left |-> delay ]

\* A timer is due when its delay has run out; timers of one kind (one delay)
\* run in the order they were set.
Due(k) ==
    /\ timers[k].left = 0
    /\ \A j \in 1..(k - 1) : timers[j].kind # timers[k].kind

DropTimer(k) == SubSeq(timers, 1, k - 1) \o SubSeq(timers, k + 1, Len(timers))

\* TIME_STEP passes: no timer is due.
timePasses ==
    /\ timers # <<>>
    /\ \A k \in 1..Len(timers) : timers[k].left > 0
    /\ timers' = [ k \in 1..Len(timers) |->
                     [ timers[k] EXCEPT !.left = @ - TIME_STEP ] ]
    /\ UNCHANGED <<appSessionId, status, isInCall, appTranscript, isListening,
                   sessionError, isSpeakingRef, utterances, endEvents,
                   cancelFiresEnd, appPc, callSessions, micOpen, awaiting>>
    /\ UNCHANGED <<hookVars, ciVars, backendVars, vadVars, consoleVars>>

\* The mount effect with a catch that takes the fallback id without reporting it.
initializeSessionSilentFallback ==
    /\ appPc = "mount"
    /\ appPc' = "mounted"
    /\ \E created \in BOOLEAN :
         IF created
         THEN /\ appSessionId' = "session"
              /\ sessionError' = "null"
         ELSE /\ appSessionId' = "fallback"
              /\ UNCHANGED sessionError
    /\ UNCHANGED <<status, isInCall, appTranscript, isListening, isSpeakingRef,
                   utterances, endEvents, timers, cancelFiresEnd, callSessions,
                   micOpen, awaiting>>
    /\ UNCHANGED <<hookVars, ciVars, backendVars, vadVars, consoleVars>>

\* App.tsx:210-251   the mount effect: the backend's id, or the fallback id
initializeSession ==
    /\ appPc = "mount"
    /\ appPc' = "mounted"
    /\ \E created \in BOOLEAN :
         IF created
         THEN /\ appSessionId' = "session"                           \* 235-237
              /\ sessionError' = "null"
         ELSE /\ appSessionId' = "fallback"                          \* 242-247
              /\ sessionError' = "error"
    /\ UNCHANGED <<status, isInCall, appTranscript, isListening, isSpeakingRef,
                   utterances, endEvents, timers, cancelFiresEnd, callSessions,
                   micOpen, awaiting>>
    /\ UNCHANGED <<hookVars, ciVars, backendVars, vadVars, consoleVars>>

\* App.tsx:323-353   the button is shown while !isInCall
handleStartCallV2 ==
    /\ ~isInCall
    /\ appSessionId # "null"                                          \* 329-333
    /\ Len(callSessions) < MaxAppCalls
    /\ callSessions' = Append(callSessions, appSessionId)
    /\ isInCall' = TRUE                                               \* 338
    /\ appTranscript' = ""
    /\ status' = "idle"
    /\ timers' = Append(timers, NewTimer("greeting", GREETING_DELAY)) \* 343-352
    /\ UNCHANGED <<appSessionId, isListening, sessionError, isSpeakingRef,
                   utterances, endEvents, cancelFiresEnd, appPc, micOpen, awaiting>>
    /\ UNCHANGED <<hookVars, ciVars, backendVars, vadVars, consoleVars>>

\* App.tsx:343-352   the greeting timer, with playVoiceResponse (282-321)
greetingTimerFired ==
    \E k \in 1..Len(timers) :
        /\ Due(k)
        /\ timers[k].kind = "greeting"
        /\ timers' = DropTimer(k)
        /\ appTranscript' = "greeting"                                   \* 350
        /\ isSpeakingRef' = TRUE                                      \* 287
        /\ utterances' = Append(utterances, [ text |-> "greeting", started |-> FALSE ])
        /\ UNCHANGED <<appSessionId, status, isInCall, isListening, sessionError,
                       endEvents, cancelFiresEnd, appPc, callSessions, micOpen, awaiting>>
        /\ UNCHANGED <<hookVars, ciVars, backendVars, vadVars, consoleVars>>

\* App.tsx:309-318   the timer set by utterance.onend
listenTimerFired ==
    \E k \in 1..Len(timers) :
        /\ Due(k)
        /\ timers[k].kind = "listen"
        /\ timers' = DropTimer(k)
        /\ status' = "listening"                                      \* 315
        /\ isListening' = TRUE                                        \* 316
        /\ micOpen' = TRUE                                            \* 317 startVoiceCall()
        /\ UNCHANGED <<appSessionId, isInCall, appTranscript, sessionError, isSpeakingRef,
                       utterances, endEvents, cancelFiresEnd, appPc, callSessions,
                       awaiting>>
        /\ UNCHANGED <<hookVars, ciVars, backendVars, vadVars, consoleVars>>

\* App.tsx:294-297   utterance.onstart
utteranceStarted ==
    /\ utterances # <<>>
    /\ ~Head(utterances).started
    /\ utterances' = [ utterances EXCEPT ![1].started = TRUE ]
    /\ status' = "speaking"
    /\ UNCHANGED <<appSessionId, isInCall, appTranscript, isListening, sessionError,
                   isSpeakingRef, endEvents, timers, cancelFiresEnd, appPc,
                   callSessions, micOpen, awaiting>>
    /\ UNCHANGED <<hookVars, ciVars, backendVars, vadVars, consoleVars>>

\* App.tsx:299-319   utterance.onend, of the utterance spoken to its end or of
\* a cancelled one
utteranceEnded ==
    /\ \/ /\ utterances # <<>>
          /\ Head(utterances).started
          /\ utterances' = Tail(utterances)
          /\ UNCHANGED endEvents
       \/ /\ endEvents > 0
          /\ endEvents' = endEvents - 1
          /\ UNCHANGED utterances
    /\ isSpeakingRef' = FALSE                                         \* 301
    /\ timers' = Append(timers, NewTimer("listen", LISTEN_DELAY))     \* 307-318
    /\ UNCHANGED <<appSessionId, status, isInCall, appTranscript, isListening,
                   sessionError, cancelFiresEnd, appPc, callSessions, micOpen, awaiting>>
    /\ UNCHANGED <<hookVars, ciVars, backendVars, vadVars, consoleVars>>

\* The hook of the second version finalizes a caller utterance and sends it.
hookTurnEnded ==
    /\ micOpen
    /\ ~awaiting
    /\ awaiting' = TRUE
    /\ status' = "thinking"
    /\ UNCHANGED <<appSessionId, isInCall, appTranscript, isListening, sessionError,
                   isSpeakingRef, utterances, endEvents, timers, cancelFiresEnd,
                   appPc, callSessions, micOpen>>
    /\ UNCHANGED <<hookVars, ciVars, backendVars, vadVars, consoleVars>>

\* App.tsx:254-273   handleResponseReceived, called by the hook with the reply,
\* with playVoiceResponse (282-321)
handleResponseReceived ==
    /\ awaiting
    /\ awaiting' = FALSE
    /\ micOpen' = FALSE                                               \* 262 stopVoiceCall()
    /\ isListening' = FALSE                                           \* 263
    /\ appTranscript' = "reply"                                          \* 265
    /\ status' = "speaking"                                           \* 266
    /\ isSpeakingRef' = TRUE                                          \* 287
    /\ utterances' = Append(utterances, [ text |-> "reply", started |-> FALSE ])
    /\ UNCHANGED <<appSessionId, isInCall, sessionError, endEvents, timers,
                   cancelFiresEnd, appPc, callSessions>>
    /\ UNCHANGED <<hookVars, ciVars, backendVars, vadVars, consoleVars>>

\* App.tsx:380-391   the button is shown while isListening
handleStopListening ==
    /\ isInCall
    /\ isListening
    /\ awaiting' = (awaiting \/ micOpen)
    /\ micOpen' = FALSE                                               \* 384 stopVoiceCall()
    /\ isListening' = FALSE
    /\ status' = "thinking"
    /\ UNCHANGED <<appSessionId, isInCall, appTranscript, sessionError, isSpeakingRef,
                   utterances, endEvents, timers, cancelFiresEnd, appPc, callSessions>>
    /\ UNCHANGED <<hookVars, ciVars, backendVars, vadVars, consoleVars>>

\* App.tsx:355-378   the buttons are shown while isInCall.  The timers set by
\* handleStartCall and utterance.onend are not cleared.
handleEndCallV2 ==
    /\ isInCall
    /\ micOpen' = FALSE                                               \* 361 stopVoiceCall()
    /\ awaiting' = FALSE
    /\ utterances' = <<>>                                             \* 365 speechSynthesis.cancel()
    /\ endEvents' = IF cancelFiresEnd /\ utterances # <<>> /\ Head(utterances).started
                    THEN endEvents + 1 ELSE endEvents
    /\ isInCall' = FALSE                                              \* 369
    /\ appTranscript' = ""
    /\ status' = "idle"
    /\ isListening' = FALSE
    /\ isSpeakingRef' = FALSE                                         \* 373
    /\ UNCHANGED <<appSessionId, sessionError, timers, cancelFiresEnd, appPc,
                   callSessions>>
    /\ UNCHANGED <<hookVars, ciVars, backendVars, vadVars, consoleVars>>

App2Init ==
    /\ appSessionId = "null"
    /\ status = "idle"
    /\ isInCall = FALSE
    /\ appTranscript = ""
    /\ isListening = FALSE
    /\ sessionError = "null"
    /\ isSpeakingRef = FALSE
    /\ utterances = <<>>
    /\ endEvents = 0
    /\ timers = <<>>
    /\ cancelFiresEnd \in BOOLEAN
    /\ appPc = "mount"
    /\ callSessions = <<>>
    /\ micOpen = FALSE
    /\ awaiting = FALSE

App2Next ==
    \/ initializeSession
    \/ handleStartCallV2
    \/ handleEndCallV2
    \/ handleStopListening
    \/ timePasses
    \/ greetingTimerFired
    \/ listenTimerFired
    \/ utteranceStarted
    \/ utteranceEnded
    \/ hookTurnEnded
    \/ handleResponseReceived

----------------------------------------------------------------------------
(* Part IV: the backend: provider detection and the provider router *)

EnvNames == {"OLLAMA_BASE_URL", "GROQ_API_KEY", "OPENAI_API_KEY"}

\* A variable is absent from the environment, or present with a value
\* (NAME= in .env gives the empty string).
Unset == [ set |-> FALSE, value |-> "" ]
EnvValues == { Unset, [ set |-> TRUE, value |-> "" ], [ set |-> TRUE, value |-> "v" ] }

\* os.getenv(name) used as a condition: None and '' are both false.
getenv(e, name) == e[name].set /\ e[name].value # ""

\* The detection with Groq tested ahead of Ollama.
determineProviderGroqFirst(e) ==
    IF getenv(e, "GROQ_API_KEY") THEN "groq"
    ELSE IF getenv(e, "OLLAMA_BASE_URL") THEN "ollama"
    ELSE IF getenv(e, "OPENAI_API_KEY") THEN "openai"
    ELSE "ValueError"

\* part_001:58-66
_determine_provider(e) ==
    IF getenv(e, "OLLAMA_BASE_URL") THEN "ollama"
    ELSE IF getenv(e, "GROQ_API_KEY") THEN "groq"
    ELSE IF getenv(e, "OPENAI_API_KEY") THEN "openai"
    ELSE "ValueError"

\* The agent is constructed at startup.
determineProvider ==
    /\ provider = "unset"
    /\ provider' = _determine_provider(env)
    /\ UNCHANGED <<env, invoked>>
    /\ UNCHANGED <<hookVars, ciVars, appVars, vadVars, consoleVars>>

\* The providers configured for one capability, most preferred first.
priorityList == << "A", "B", "C" >>

NotInvoked == [ called |-> FALSE, succeeds |-> {}, ok |-> FALSE, by |-> "",
                failures |-> <<>>, attempts |-> <<>> ]

\* The router trying the failed provider again before it moves on.
RECURSIVE RouteWithRetry(_, _, _, _)
RouteWithRetry(list, succeeds, failures, attempts) ==
    IF list = <<>>
    THEN [ called |-> TRUE, succeeds |-> succeeds, ok |-> FALSE, by |-> "",
           failures |-> failures, attempts |-> attempts ]
    ELSE IF Head(list) \in succeeds
    THEN [ called |-> TRUE, succeeds |-> succeeds, ok |-> TRUE, by |-> Head(list),
           failures |-> failures, attempts |-> Append(attempts, Head(list)) ]
    ELSE RouteWithRetry(Tail(list), succeeds, Append(failures, Head(list)),
                        attempts \o << Head(list), Head(list) >>)

\* The router's loop over the rest of the priority list: on success it returns
\* at once, on failure it records the failure and goes on to the next provider,
\* and when the list is exhausted it returns the failure with the providers tried.
RECURSIVE Route(_, _, _, _)
Route(list, succeeds, failures, attempts) ==
    IF list = <<>>
    THEN [ called |-> TRUE, succeeds |-> succeeds, ok |-> FALSE, by |-> "",
           failures |-> failures, attempts |-> attempts ]
    ELSE IF Head(list) \in succeeds
    THEN [ called |-> TRUE, succeeds |-> succeeds, ok |-> TRUE, by |-> Head(list),
           failures |-> failures, attempts |-> Append(attempts, Head(list)) ]
    ELSE Route(Tail(list), succeeds, Append(failures, Head(list)),
               Append(attempts, Head(list)))

\* invoke(capability, request), for the providers that would answer this request
invoke ==
    /\ \E succeeds \in SUBSET { priorityList[k] : k \in 1..Len(priorityList) } :
         invoked' = Route(priorityList, succeeds, <<>>, <<>>)
    /\ UNCHANGED <<env, provider>>
    /\ UNCHANGED <<hookVars, ciVars, appVars, vadVars, consoleVars>>

BackendInit ==
    /\ env \in [ EnvNames -> EnvValues ]
    /\ provider = "unset"
    /\ invoked = NotInvoked

BackendNext ==
    \/ determineProvider
    \/ invoke

\* The frontend runs against a backend that is not looked into.
BackendIdle == env = [ n \in EnvNames |-> Unset ]

----------------------------------------------------------------------------
(* The energy checks, one frame at a time *)

\* The averages getByteFrequencyData can give: a mean of bytes.
ByteAverages == 0..BYTE_MAX

NoFrame == [ check |-> "none", average |-> 0, speech |-> FALSE ]

\* CallInterface.tsx:125-135   checkAudio of the first version reads a frame
frameCheckAudioV1 ==
    /\ \E average \in ByteAverages :
         frame' = [ check |-> "checkAudioV1", average |-> average,
                    speech |-> isLoud(average) ]
    /\ UNCHANGED <<hookVars, ciVars, appVars, backendVars, consoleVars>>

\* CallInterface.tsx:449-453   checkAudio of the second version reads a frame
frameCheckAudioV2 ==
    /\ \E average \in ByteAverages :
         frame' = [ check |-> "checkAudioV2", average |-> average,
                    speech |-> isSpeechDetected(average) ]
    /\ UNCHANGED <<hookVars, ciVars, appVars, backendVars, consoleVars>>

\* part_002:368-376   checkSilence of the hook reads a frame
frameCheckSilence ==
    /\ \E average \in ByteAverages :
         frame' = [ check |-> "checkSilence", average |-> average,
                    speech |-> SoundDetected(average) ]
    /\ UNCHANGED <<hookVars, ciVars, appVars, backendVars, consoleVars>>

VadInit == frame = NoFrame

VadNext ==
    \/ frameCheckAudioV1
    \/ frameCheckAudioV2
    \/ frameCheckSilence

----------------------------------------------------------------------------
(* The console log of the first App version *)

LOG_KEEP == 50                  \* App.tsx:49  prev.slice(-50)

\* Array.prototype.slice(-n): the last n elements, all of them when there are fewer
sliceLast(s, n) == IF Len(s) > n THEN SubSeq(s, Len(s) - n + 1, Len(s)) ELSE s

\* The messages of console.error and console.warn that the log holds.
Prefixed == { k \in 1..Len(log) : log[k].prefix # "" }

\* App.tsx:49 / 55 / 61   setLog((prev) => [...prev.slice(-50), message]); the
\* message is the prefix and the joined arguments, here the call's number.
consoleWrite(prefix) ==
    /\ logged < MaxMessages
    /\ logged' = logged + 1
    /\ log' = Append(sliceLast(log, LOG_KEEP), [ prefix |-> prefix, n |-> logged + 1 ])
    /\ UNCHANGED <<hookVars, ciVars, appVars, backendVars, vadVars>>

\* App.tsx:47-51
consoleLog == consoleWrite("")

\* App.tsx:53-57
consoleError ==
    /\ Cardinality(Prefixed) < MaxPrefixed
    /\ consoleWrite("error")

\* App.tsx:59-63
consoleWarn ==
    /\ Cardinality(Prefixed) < MaxPrefixed
    /\ consoleWrite("warn")

ConsoleInit ==
    /\ log = <<>>
    /\ logged = 0

ConsoleNext ==
    \/ consoleLog
    \/ consoleError
    \/ consoleWarn

----------------------------------------------------------------------------
Init == HookInit /\ CIInit /\ App2Init /\ BackendInit /\ VadInit /\ ConsoleInit

\* The first App version renders no call interface: its variables stay as constructed.
AppInit == Init /\ ciVersion = 1 /\ ~cancelFiresEnd /\ BackendIdle

\* The hook under the first App version.
Spec == AppInit /\ [][HookNext]_vars

CallInterfaceInit == Init /\ ~cancelFiresEnd /\ BackendIdle

\* The call interface; of the hook's variables it reads browserStopThrows.
SpecCallInterface == CallInterfaceInit /\ [][CINext]_vars

App2SpecInit == Init /\ ciVersion = 1 /\ ~browserStopThrows /\ BackendIdle

\* The second App version.
SpecApp2 == App2SpecInit /\ [][App2Next]_vars

BackendSpecInit == Init /\ ciVersion = 1 /\ ~browserStopThrows /\ ~cancelFiresEnd

\* The backend.
SpecBackend == BackendSpecInit /\ [][BackendNext]_vars

\* The frontend and the backend as constructed, for the parts that read neither.
RestInit ==
    Init /\ ciVersion = 1 /\ ~browserStopThrows /\ ~cancelFiresEnd /\ BackendIdle

\* The energy checks.
SpecEnergyCheck == RestInit /\ [][VadNext]_vars

\* The console log.
SpecConsole == RestInit /\ [][ConsoleNext]_vars

----------------------------------------------------------------------------
(* Claims about the hook *)

CyclesInFlight == Cardinality({ i \in Slots : InFlight(cyc, i) })

\* C1: at every moment at most one conversation cycle (a silence-check
\* interval, or the stop -> transcribe -> chat -> speak chain it started) is
\* in flight, whatever the interleaving of Start Call and End Call.
C1_AtMostOneCycleInFlight == CyclesInFlight <= 1

\* C2: once End Call has been invoked during a turn (transcribing, awaiting
\* the chat reply, or speaking), and until the next Start Call, nothing more
\* is spoken and no recording is started.
C2_EndCallDiscardsInFlightWork ==
    [][ (endCallFound = "midTurn" /\ endCallFound' = "midTurn")
          => /\ Len(synth') <= Len(synth)
             /\ (recorder'.st = "recording" => recorder.st = "recording") ]_vars

\* C3: after the transcription of a finalized turn has failed, and while the
\* caller has not ended the call, the conversation loop is still alive: a
\* cycle is in flight that can capture the next turn.
C3_FailedTranscriptionKeepsLoop ==
    (lastTurn = "transcribeRejected" /\ isCallActive /\ endCallFound = "none")
        => \E i \in Slots : InFlight(cyc, i)

\* C4: after the chat request has failed or brought no reply, the hook does
\* not rest in 'processing': an apology is spoken and listening resumes.
C4_ReasoningFailureRecovers ==
    (lastTurn = "noReply" /\ endCallFound = "none") => state # "processing"

ChainRunning(i) == cyc[i].chain \in {"stopping", "transcribing", "chatting", "speaking"}

\* C7: a recording in which no frame has exceeded the threshold is never
\* stopped and finalized by the silence check, however long the silence.
C7_PreSpeechSilenceNeverEndsTurn ==
    \A i \in Slots : ChainRunning(i) => cyc[i].speech # 0

\* C8: a capture with some speech, but less than MIN_SPEECH_DURATION of it,
\* is never finalized and handed to transcription.
C8_ShortSpeechDiscarded ==
    \A i \in Slots :
        (ChainRunning(i) /\ cyc[i].speech > 0)
            => cyc[i].speech * CHECK_INTERVAL >= MIN_SPEECH_DURATION

\* C9: after speech, the check at which the elapsed silence reaches
\* SILENCE_DURATION ends the turn: no interval is still set once the silence
\* it measured at its latest check is SILENCE_DURATION or more.
C9_TurnEndsWhenSilenceReachesDuration ==
    \A i \in Slots :
        (cyc[i].timer /\ recorder.st = "recording" /\ recorder.by = i
                      /\ recorder.speech > 0)
            => cyc[i].sinceSound < SILENCE_DURATION

ChainSteps == <<"stop", "transcribe", "chat", "speak">>

IsPrefix(s, t) == Len(s) <= Len(t) /\ SubSeq(t, 1, Len(s)) = s

\* C10: every cycle takes the steps stop-recording, transcription, chat
\* request, spoken reply in this order and each at most once, and no
\* recording runs while a reply is still queued or being spoken.
C10_TurnSequencedOnceInOrder ==
    /\ \A i \in Slots : IsPrefix(cyc[i].log, ChainSteps)
    /\ recorder.st = "recording" =>
           /\ synth = <<>>
           /\ \A i \in Slots : cyc[i].chain \notin {"speaking", "cancelled"}

C10_Witness == \E i \in Slots : cyc[i].log = ChainSteps /\ state = "speaking"

\* C12: the conversation record holds one entry per completed turn: once a
\* chat reply has been received (a caller turn and an agent turn are complete)
\* the hook's messages hold at least those two entries.
C12_HistoryHoldsCompletedTurns == replied => Len(messages) >= 2

\* C13: a chat request issued after earlier turns of the session carries
\* those turns as well as the latest utterance.
C13_ChatRequestCarriesHistory ==
    \A i \in Slots :
        (cyc[i].chain = "chatting" /\ replied)
            => Len(RequestTurns(ChatRequest(i))) > 1

\* C13 (amended): a chat request carries the id of the session, which is set,
\* and one utterance, the transcript of the turn; no prior turn is in it.
C13_ChatRequestCarriesSessionAndUtterance ==
    \A i \in Slots :
        cyc[i].chain = "chatting"
            => /\ sessionId # ""
               /\ ChatRequest(i).session_id = sessionId
               /\ RequestTurns(ChatRequest(i)) = << cyc[i].text >>

C13_Witness == \E i \in Slots : cyc[i].chain = "chatting" /\ replied

\* C15: when initialize has failed on the microphone, no session was created.
C15_NoSessionWithoutMicrophone ==
    (initPc = "mounted" /\ ~isInitialized /\ error = "mic") => sessionId = ""

ListeningAgain ==
    /\ state = "listening"
    /\ recorder.st = "recording"
    /\ \E j \in Slots : cyc[j].timer /\ cyc[j].chain = "waiting" /\ recorder.by = j

\* The step in which speaking a reply is over: the utterance's onend or
\* onerror, or speakText's catch.
SpeechOver ==
    \/ \E i \in Slots : speechFinished(i)
    \/ \E i \in Slots : chatResponded(i) /\ synth' = synth /\ lastTurn' = "none"

\* C17: when speaking a reply ends or errors, the hook starts the next
\* conversation cycle: it is listening and recording again.
C17_SpeechErrorReturnsToListening == [][ SpeechOver => ListeningAgain' ]_vars

C17_Witness ==
    /\ replied
    /\ ListeningAgain
    /\ \A i \in Slots : cyc[i].chain \notin {"speaking", "cancelled"}

\* C18: a chat request is only ever issued with a transcript that is not
\* empty and not whitespace only.
C18_ChatOnlyOnNonEmptyTranscript ==
    \A i \in Slots :
        cyc[i].chain = "chatting"
            => \E k \in 1..Len(cyc[i].text) : ~IsSpace(cyc[i].text[k])

C18_Witness == \E i \in Slots : cyc[i].chain = "chatting" /\ cyc[i].text = <<"h", "i">>

\* C25: once End Call has been clicked and the stop it asked for has been
\* handled, the call is not active, whatever the recorder was doing.
C25_EndCallEndsCall ==
    (endCallFound # "none" /\ recorder.st # "stopping") => ~isCallActive

\* C29: the hook's state is 'listening' exactly when the MediaRecorder is
\* recording.
C29_ListeningIffRecording == (state = "listening") <=> (recorder.st = "recording")

\* The step in which sendMessage is called: the transcript was accepted and
\* the chain either ends for want of a session or goes on to the request.
SendMessageCalled ==
    \E i \in Slots : transcribed(i) /\ (lastTurn' = "noSession" \/ state' = "processing")

\* C30: sendMessage with an empty session id returns null (the chain ends
\* there), issues no chat request and changes neither state nor error.
C30_SendMessageWithoutSessionIsNoOp ==
    [][ (sessionId = "" /\ SendMessageCalled)
          => /\ lastTurn' = "noSession"
             /\ state' = state
             /\ error' = error
             /\ \A j \in 1..Len(cyc') : cyc'[j].chain # "chatting" ]_vars

C30_Witness == sessionId = "" /\ lastTurn = "noSession" /\ state = "listening"

----------------------------------------------------------------------------
(* Claims about the call interface *)

\* checkAudio is never scheduled again after its first, synchronous run.
NoFrameScheduled == rafPending = 0

\* C5: while a backend audio blob is playing, no monitoring loop and no
\* recorder is running and isListening is false.
C5_NoCaptureWhileAgentAudioPlays ==
    playing > 0 =>
        /\ ~callState.isListening
        /\ rafPending = 0
        /\ ciRecorder.st # "recording"
        /\ lostRecorders = 0

\* No blob ever reaches the backend: the recorder stops only in endCall, which
\* has closed the socket by the time the stop event is handled.
NoBlobSent == sentBlobs = 0 /\ transcripts = <<>>

\* C16: once the socket has closed, the call interface is not connected, not
\* listening and not speaking, no checkAudio frame is scheduled and no recorder
\* records.
C16_SocketCloseEndsCall ==
    (ciVersion = 2 /\ websocket = "closed") =>
        /\ ~callState.isConnected
        /\ ~callState.isListening
        /\ ~callState.isSpeaking
        /\ rafPending = 0
        /\ ciRecorder.st # "recording"
        /\ lostRecorders = 0

\* C6: when agent audio finishes playing while the call is connected, voice
\* capture is started again: the interface is listening and its monitoring
\* loop is scheduled.
C6_PlaybackEndResumesListening ==
    [][ (playing' < playing /\ callState.isConnected)
          => (callState'.isListening /\ rafPending' > 0) ]_vars

\* In the second version no recorder is ever created and the monitor never
\* counts: ws.onopen does not call startListening, and audio.onended and
\* checkAudio read the callState of the render in which startCall ran.
NoMonitorInSecondVersion ==
    ciVersion = 2 => (ciRecorder.st = "null" /\ ~isRecordingRef /\ silenceCounter = 0)

RecordersAlive == lostRecorders + (IF ciRecorder.st = "recording" THEN 1 ELSE 0)

\* C24: at most one monitoring loop is scheduled and at most one MediaRecorder
\* records at any time.
C24_OneLoopOneRecorder == rafPending <= 1 /\ RecordersAlive <= 1

CallEnded ==
    [ isConnected |-> FALSE, isListening |-> FALSE, isSpeaking |-> FALSE,
      status |-> "Call ended" ]

\* C26: endCall leaves isConnected, isListening and isSpeaking false and the
\* status 'Call ended', from every call state.
C26_EndCallReachesFinalState == [][ endCall => callState' = CallEnded ]_vars

SocketOver == websocket \in {"closing", "closed"}

StopHandled == ciRecorder.st = "stopping" /\ ciRecorder'.st = "inactive"

MicrophoneDenied == callState.status = "Error: Microphone access denied"

\* CallInterface.tsx:100-164 / 408-512   a step in which startListening takes
\* effect: a recorder starts, isListening turns true or a frame is scheduled.
ListeningStarts ==
    \/ lostRecorders' # lostRecorders
    \/ ciRecorder.st # "recording" /\ ciRecorder'.st = "recording"
    \/ ~callState.isListening /\ callState'.isListening
    \/ rafPending' > rafPending

----------------------------------------------------------------------------
(* Claims about the second App version *)

\* C14: every Start Call runs under a session id that no earlier call used.
C14_SessionIdsNeverReused ==
    \A a, b \in 1..Len(callSessions) : a # b => callSessions[a] # callSessions[b]

\* C19: while an utterance is being spoken (isSpeakingRef is true) the
\* microphone is closed: isListening is false and status is not 'listening'.
C19_MicrophoneClosedWhileSpeaking ==
    isSpeakingRef => (~isListening /\ status # "listening")

\* C20: after End Call, until the next Start Call, nothing reopens the call:
\* isInCall and isListening are false, status is 'idle', nothing is spoken
\* and capture is not started.
C20_EndCallStaysEnded ==
    ~isInCall =>
        /\ ~isListening
        /\ status = "idle"
        /\ utterances = <<>>
        /\ ~isSpeakingRef
        /\ ~micOpen

\* C31: a call is in progress only with a session id; once the mount effect
\* has run there is a session id; and sessionError is null exactly when the
\* id is the one the backend issued, never with the fallback id.
C31_CallOnlyWithSession ==
    /\ isInCall => appSessionId # "null"
    /\ appPc = "mounted" => appSessionId # "null"
    /\ appSessionId = "session" => sessionError = "null"
    /\ appSessionId = "fallback" => sessionError # "null"

C31_Witness == isInCall /\ appSessionId = "fallback" /\ sessionError = "error"

----------------------------------------------------------------------------
(* Claims about the backend *)

IsSet(name) == env[name].set

NonEmpty(name) == env[name].set /\ env[name].value # ""

C22_FallbackDeterminism ==
    /\ (invoked.called /\ invoked.succeeds = {"C"}) =>
          /\ invoked.ok
          /\ invoked.by = "C"
          /\ invoked.failures = << "A", "B" >>
    /\ \A j, k \in 1..Len(invoked.attempts) :
          invoked.attempts[j] = invoked.attempts[k] => j = k

C22_Witness ==
    invoked.called /\ invoked.succeeds = {"C"} /\ invoked.by = "C"

----------------------------------------------------------------------------
(* Claims about the energy checks *)

\* The threshold of each check, in the units of SoundDetected (hundredths).
ExceedsThreshold(check, average) ==
    CASE check = "checkAudioV1" -> average > SILENCE_THRESHOLD_V1
      [] check = "checkAudioV2" -> average > SILENCE_THRESHOLD_V2
      [] check = "checkSilence" -> average * 100 > VAD_THRESHOLD_PERCENT * BYTE_MAX
      [] OTHER -> FALSE

\* C33: in every version of the energy check a frame is speech only when its
\* average strictly exceeds the threshold; a frame at the threshold is silence.
C33_SpeechOnlyAboveThreshold ==
    frame.check # "none" =>
        (frame.speech <=> ExceedsThreshold(frame.check, frame.average))

----------------------------------------------------------------------------
(* Claims about the console log *)

\* C34: the log never holds more than 50 entries, and they are the most recent
\* console calls in order.
C34_LogKeepsLast50 ==
    /\ Len(log) <= LOG_KEEP
    /\ \A k \in 1..Len(log) : log[k].n = logged - Len(log) + k

====
